---- MODULE Spec2Model ----
(***************************************************************************)
(* A model of sapp's TrimmedTraceGraph (src/sapp/trimmed_trace_graph.py):  *)
(* the trimming of a TraceGraph to the issues and traces that involve a    *)
(* set of affected files.                                                  *)
(*                                                                         *)
(* Python objects are references.  The immutable objects (shared texts,   *)
(* issues, trace frames, annotations, and the immutable fields of issue    *)
(* instances) are the tables below, indexed by local id; a graph holds     *)
(* ids, which stand for the references its dictionaries hold.  The only    *)
(* fields the code ever assigns, the derived fields of an IssueInstance,   *)
(* live in the variable props, one record per instance object.             *)
(***************************************************************************)
EXTENDS Integers, Sequences, FiniteSets, TLC

\* ------------------------------------------------------------------ bounds
\* The source graph holds a subset of the first NumFrames candidate frames,
\* of the first NumInstances candidate instances and of the first
\* NumAnnotations candidate annotations of the tables below.
NumFrames == 6
NumInstances == 3
NumAnnotations == 3
\* Depth of the interpreter's call stack (nested _populate_trace,
\* _add_trace_frame calls) at which Python raises RecursionError.
MaxStack == 10
\* The items added to a BulkSaver and its save_all calls.
MaxItems == 3
MaxRuns == 2
\* BulkSaver.BATCH_SIZE (30000 in bulk_saver.py) scaled down to the number of
\* items above, so that a class is written in several batches.
BatchSize == 1
\* The largest num_tries a retryable wrapper is made with, and the calls of
\* the wrapper.
MaxTries == 5
MaxCalls == 2

\* depth of a leaf association that has no trace length (Python's None)
NoDepth == -1

\* ------------------------------------------------------------ object tables
POSTCONDITION == "postcondition"
PRECONDITION == "precondition"
AnyKind == "None"

\* SharedText objects: local id -> kind and contents (a string is the
\* sequence of its characters).
SharedTexts ==
  [x \in 1..11 |->
     CASE x = 1 -> [kind |-> "filename", contents |-> <<"/", "a", "/", "b", ".", "p", "y">>]
       [] x = 2 -> [kind |-> "filename", contents |-> <<"/", "c", "/", "d", ".", "p", "y">>]
       [] x = 3 -> [kind |-> "filename", contents |-> <<"/", "c", "/", "e", ".", "p", "y">>]
       [] x = 4 -> [kind |-> "callable", contents |-> <<"f">>]
       [] x = 5 -> [kind |-> "callable", contents |-> <<"g">>]
       [] x = 6 -> [kind |-> "callable", contents |-> <<"h">>]
       [] x = 7 -> [kind |-> "source", contents |-> <<"L", "1">>]
       [] x = 8 -> [kind |-> "source", contents |-> <<"L", "2">>]
       [] x = 9 -> [kind |-> "sink", contents |-> <<"K", "1">>]
       [] x = 10 -> [kind |-> "feature", contents |-> <<"f", "t">>]
       [] OTHER -> [kind |-> "message", contents |-> <<"m">>]]

TextId(kind, contents) ==
  CHOOSE x \in DOMAIN SharedTexts :
    SharedTexts[x].kind = kind /\ SharedTexts[x].contents = contents

\* The leaves of the tables: two sources, a sink and a feature.
L1 == TextId("source", <<"L", "1">>)
L2 == TextId("source", <<"L", "2">>)
K1 == TextId("sink", <<"K", "1">>)
Ft == TextId("feature", <<"f", "t">>)

Frame(k, cr, ce, fn, lm) ==
  [kind |-> k, caller_id |-> cr, caller_port |-> "root", callee_id |-> ce,
   callee_port |-> "root", filename_id |-> fn, leaf_mapping |-> lm]

\* TraceFrame objects.  leaf_mapping is a set of <<caller_leaf, callee_leaf>>.
TraceFrames ==
  [f \in 1..7 |->
     CASE f = 1 -> Frame(POSTCONDITION, 5, 6, 2, {<<L1, L1>>, <<L2, L2>>})
       [] f = 2 -> Frame(POSTCONDITION, 4, 5, 1, {<<L1, L1>>, <<L2, L2>>})
       [] f = 3 -> Frame(PRECONDITION, 4, 5, 2, {<<K1, K1>>})
       [] f = 4 -> Frame(PRECONDITION, 5, 4, 1, {<<K1, K1>>})
       [] f = 5 -> Frame(POSTCONDITION, 4, 6, 3, {<<L2, L2>>})
       [] f = 6 -> Frame(POSTCONDITION, 6, 4, 1, {<<L2, L1>>})
       [] OTHER -> Frame(PRECONDITION, 6, 5, 3, {<<K1, K1>>})]

\* The (leaf id, depth) pairs the loader records for each frame.
FrameLeaves ==
  [f \in 1..7 |->
     CASE f = 1 -> {<<L1, 1>>, <<L2, 1>>}
       [] f = 2 -> {<<L1, 2>>}
       [] f = 3 -> {<<K1, 2>>}
       [] f = 4 -> {<<K1, 1>>, <<Ft, NoDepth>>}
       [] f = 5 -> {<<L2, 3>>, <<K1, 1>>}
       [] f = 6 -> {<<L1, 1>>}
       [] OTHER -> {<<K1, 3>>}]

\* IssueInstance objects: the fields no code assigns.
IssueInstances ==
  [i \in 1..4 |->
     CASE i = 1 -> [issue_id |-> 1, filename_id |-> 2, callable_id |-> 4, message_id |-> 11]
       [] i = 2 -> [issue_id |-> 1, filename_id |-> 3, callable_id |-> 4, message_id |-> 11]
       [] i = 3 -> [issue_id |-> 2, filename_id |-> 1, callable_id |-> 5, message_id |-> 11]
       [] OTHER -> [issue_id |-> 2, filename_id |-> 2, callable_id |-> 6, message_id |-> 11]]

\* The shared texts (sources, sinks, features) of each instance.
InstanceTexts ==
  [i \in 1..4 |->
     CASE i = 1 -> {L1, K1, Ft}
       [] i = 2 -> {L2}
       [] i = 3 -> {L1, K1}
       [] OTHER -> {L2, K1}]

\* The first-hop frames of each instance.
InstanceFirstHops ==
  [i \in 1..4 |->
     CASE i = 1 -> {2, 3, 5}
       [] i = 2 -> {2, 5}
       [] i = 3 -> {1, 4}
       [] OTHER -> {6}]

\* The instances that have an IssueInstanceFixInfo.
InstancesWithFixInfo == {1}

\* TraceFrameAnnotation objects: the parent frame and the child frames.
TraceFrameAnnotations ==
  [a \in 1..4 |->
     CASE a = 1 -> [trace_frame_id |-> 2, children |-> {4}]
       [] a = 2 -> [trace_frame_id |-> 4, children |-> {3}]
       [] a = 3 -> [trace_frame_id |-> 1, children |-> {1}]
       [] OTHER -> [trace_frame_id |-> 5, children |-> {6}]]

\* The values of affected_files the trimmer is constructed with.
AffectedFilesChoices ==
  { <<>>,
    << <<"/", "a", "/">> >>,
    << <<"/", "c", "/">> >>,
    << <<"/", "c", "/", "e">>, <<"/", "a", "/">> >>,
    << <<"/">> >> }

\* ------------------------------------------------------------------ helpers
Min(S) == CHOOSE m \in S : \A n \in S : m <= n

\* list(s) of a set of small ints: CPython iterates it in ascending order.
RECURSIVE SortedSeq(_)
SortedSeq(S) == IF S = {} THEN <<>> ELSE <<Min(S)>> \o SortedSeq(S \ {Min(S)})

SeqSet(s) == {s[k] : k \in 1..Len(s)}

Last(s) == s[Len(s)]

Front(s) == SubSeq(s, 1, Len(s) - 1)

\* ---------------------------------------------------------------- TraceGraph
\* A graph: the keys of its dictionaries and its association sets.
\* issue_instances keeps the insertion order of the dictionary, which the
\* trimmer iterates.
EmptyGraph ==
  [shared_texts |-> {}, issues |-> {}, issue_instances |-> <<>>,
   issue_instance_fix_info |-> {}, trace_frames |-> {}, trace_annotations |-> {},
   trace_frame_leaf_assoc |-> {}, issue_instance_trace_frame_assoc |-> {},
   issue_instance_shared_text_assoc |-> {},
   trace_frame_annotation_trace_frame_assoc |-> {}]

\* The graph the loader builds from frames F, instances I and annotations A
\* (an annotation needs its parent and child frames).
SourceGraph(F, I, A) ==
  LET As == {a \in A : TraceFrameAnnotations[a].trace_frame_id \in F
                       /\ TraceFrameAnnotations[a].children \subseteq F}
  IN [shared_texts |-> DOMAIN SharedTexts,
      issues |-> {IssueInstances[i].issue_id : i \in I},
      issue_instances |-> SortedSeq(I),
      issue_instance_fix_info |-> I \cap InstancesWithFixInfo,
      trace_frames |-> F,
      trace_annotations |-> As,
      trace_frame_leaf_assoc |->
        UNION {{<<f, p[1], p[2]>> : p \in FrameLeaves[f]} : f \in F},
      issue_instance_trace_frame_assoc |->
        UNION {{<<i, f>> : f \in InstanceFirstHops[i] \cap F} : i \in I},
      issue_instance_shared_text_assoc |->
        UNION {{<<i, x>> : x \in InstanceTexts[i]} : i \in I},
      trace_frame_annotation_trace_frame_assoc |->
        UNION {{<<a, f>> : f \in TraceFrameAnnotations[a].children} : a \in As}]

add_shared_text(S, x) == [S EXCEPT !.shared_texts = @ \cup {x}]

add_issue_instance(S, i) ==
  [S EXCEPT !.issue_instances = IF i \in SeqSet(@) THEN @ ELSE Append(@, i)]

add_issue(S, u) == [S EXCEPT !.issues = @ \cup {u}]

add_issue_instance_fix_info(S, i) ==
  [S EXCEPT !.issue_instance_fix_info = @ \cup {i}]

add_issue_instance_shared_text_assoc(S, i, x) ==
  [S EXCEPT !.issue_instance_shared_text_assoc = @ \cup {<<i, x>>}]

add_issue_instance_trace_frame_assoc(S, i, f) ==
  [S EXCEPT !.issue_instance_trace_frame_assoc = @ \cup {<<i, f>>}]

add_trace_frame(S, f) == [S EXCEPT !.trace_frames = @ \cup {f}]

add_trace_frame_leaf_assoc(S, f, l, d) ==
  [S EXCEPT !.trace_frame_leaf_assoc = @ \cup {<<f, l, d>>}]

add_trace_annotation(S, a) == [S EXCEPT !.trace_annotations = @ \cup {a}]

add_trace_frame_annotation_trace_frame_assoc(S, a, f) ==
  [S EXCEPT !.trace_frame_annotation_trace_frame_assoc = @ \cup {<<a, f>>}]

\* graph._issue_instance_trace_frame_assoc[instance_id]
first_hops(G, i) == {p[2] : p \in {q \in G.issue_instance_trace_frame_assoc : q[1] = i}}

\* graph._trace_frame_issue_instance_assoc[trace_frame_id]
get_issue_instances_from_frame_id(G, f) ==
  {p[1] : p \in {q \in G.issue_instance_trace_frame_assoc : q[2] = f}}

\* graph._trace_frame_leaf_assoc[trace_frame_id]: a set of <<leaf_id, depth>>
leaf_depths(G, f) ==
  {<<p[2], p[3]>> : p \in {q \in G.trace_frame_leaf_assoc : q[1] = f}}

\* The frames of the kind of f that start where f ends.
get_next_trace_frames(G, f) ==
  {n \in G.trace_frames :
     /\ TraceFrames[n].kind = TraceFrames[f].kind
     /\ TraceFrames[n].caller_id = TraceFrames[f].callee_id
     /\ TraceFrames[n].caller_port = TraceFrames[f].callee_port}

\* graph._trace_frames_rev_map[kind][(id, port)]: frames of that kind that end
\* at (id, port).
trace_frames_rev_map(G, kind, id, port) ==
  {p \in G.trace_frames :
     /\ TraceFrames[p].kind = kind
     /\ TraceFrames[p].callee_id = id
     /\ TraceFrames[p].callee_port = port}

IsLeafKind(x) == SharedTexts[x].kind \in {"source", "sink"}

get_incoming_leaf_kinds_of_frame(G, f) ==
  {p[1] : p \in {q \in leaf_depths(G, f) : IsLeafKind(q[1])}}

compute_prev_leaf_kinds(leaves, leaf_mapping) ==
  {m[1] : m \in {n \in leaf_mapping : n[2] \in leaves}}

get_issue_instance_shared_texts(G, i, kind) ==
  {p[2] : p \in {q \in G.issue_instance_shared_text_assoc :
                   q[1] = i /\ SharedTexts[q[2]].kind = kind}}

get_condition_annotations(G, f) ==
  {a \in G.trace_annotations : TraceFrameAnnotations[a].trace_frame_id = f}

get_annotation_trace_frames(G, a) ==
  {p[2] : p \in {q \in G.trace_frame_annotation_trace_frame_assoc : q[1] = a}}

\* --------------------------------------------------------- TrimmedTraceGraph
startswith(s, p) == Len(p) <= Len(s) /\ SubSeq(s, 1, Len(p)) = p

\* all() where the code has any()
is_filename_prefixed_with_all(filename, prefixes) ==
  \A k \in 1..Len(prefixes) : startswith(filename, prefixes[k])

is_filename_prefixed_with(filename, prefixes) ==
  \E k \in 1..Len(prefixes) : startswith(filename, prefixes[k])

get_text(G, x) == SharedTexts[x].contents

populate_shared_text(S, G, x) ==
  IF x \notin S.shared_texts THEN add_shared_text(S, x) ELSE S

RECURSIVE populate_instance_texts(_, _, _)
\* the loop over graph._issue_instance_shared_text_assoc[instance_id]
populate_instance_texts(S, i, xs) ==
  IF xs = <<>> THEN S
  ELSE populate_instance_texts(
         add_issue_instance_shared_text_assoc(
           IF Head(xs) \notin S.shared_texts THEN add_shared_text(S, Head(xs)) ELSE S,
           i, Head(xs)),
         i, Tail(xs))

populate_issue(S, G, i) ==
  LET inst == IssueInstances[i]
      S1 == populate_shared_text(S, G, inst.message_id)
      S2 == populate_shared_text(S1, G, inst.filename_id)
      S3 == populate_shared_text(S2, G, inst.callable_id)
      S4 == add_issue(add_issue_instance(S3, i), inst.issue_id)
      S5 == IF i \in G.issue_instance_fix_info
            THEN add_issue_instance_fix_info(S4, i) ELSE S4
  IN populate_instance_texts(
       S5, i,
       SortedSeq({p[2] : p \in {q \in G.issue_instance_shared_text_assoc : q[1] = i}}))

\* The first hops of the instance that _populate_issue_trace keeps.
filtered_ids(G, i, kind) ==
  {f \in first_hops(G, i) : kind = AnyKind \/ kind = TraceFrames[f].kind}

RECURSIVE add_first_hop_assocs(_, _, _)
add_first_hop_assocs(S, i, fs) ==
  IF fs = <<>> THEN S
  ELSE add_first_hop_assocs(
         add_issue_instance_trace_frame_assoc(S, i, Head(fs)), i, Tail(fs))

\* _populate_issue_trace up to its call of _populate_trace
populate_issue_trace(S, G, i, kind) ==
  add_first_hop_assocs(S, i, SortedSeq(filtered_ids(G, i, kind)))

get_sink_kinds(G, i) == get_issue_instance_shared_texts(G, i, "sink")

get_source_kinds(G, i) == get_issue_instance_shared_texts(G, i, "source")

get_instance_leaf_ids(G, i) == get_source_kinds(G, i) \cup get_sink_kinds(G, i)

\* the leaves are handed to the predecessor as they are, not translated
get_predecessor_frames_untranslated(G, leaves, f) ==
  [k \in 1..Cardinality(trace_frames_rev_map(
                          G, TraceFrames[f].kind, TraceFrames[f].caller_id,
                          TraceFrames[f].caller_port)) |->
     <<SortedSeq(trace_frames_rev_map(
                   G, TraceFrames[f].kind, TraceFrames[f].caller_id,
                   TraceFrames[f].caller_port))[k], leaves>>]

\* The list of (predecessor, leaf kinds to follow).
get_predecessor_frames(G, leaves, f) ==
  [k \in 1..Cardinality(trace_frames_rev_map(
                          G, TraceFrames[f].kind, TraceFrames[f].caller_id,
                          TraceFrames[f].caller_port)) |->
     LET p == SortedSeq(trace_frames_rev_map(
                          G, TraceFrames[f].kind, TraceFrames[f].caller_id,
                          TraceFrames[f].caller_port))[k]
     IN <<p, compute_prev_leaf_kinds(leaves, TraceFrames[p].leaf_mapping)>>]

\* only sinks count
counted_depths_sink_only(S, tf_ids) ==
  {p[2] : p \in {q \in UNION {leaf_depths(S, f) : f \in tf_ids} :
                   /\ SharedTexts[q[1]].kind \in {"sink"}
                   /\ q[2] # NoDepth}}

\* The depths _get_min_leaf_depth takes the minimum of.
counted_depths(S, tf_ids) ==
  {p[2] : p \in {q \in UNION {leaf_depths(S, f) : f \in tf_ids} :
                   /\ SharedTexts[q[1]].kind \in {"source", "sink"}
                   /\ q[2] # NoDepth}}

get_min_leaf_depth(S, tf_ids) ==
  IF counted_depths(S, tf_ids) # {} THEN Min(counted_depths(S, tf_ids)) ELSE 0

get_min_depth_to_sources(S, i) ==
  get_min_leaf_depth(S, {f \in first_hops(S, i) : TraceFrames[f].kind = POSTCONDITION})

get_min_depth_to_sinks(S, i) ==
  get_min_leaf_depth(S, {f \in first_hops(S, i) : TraceFrames[f].kind = PRECONDITION})

\* the counter is not keyed by the callable
callables_histo_unkeyed(S, c) ==
  Len(S.issue_instances)

\* callables_histo[callable_id]
callables_histo(S, c) ==
  Cardinality({k \in 1..Len(S.issue_instances) :
                 IssueInstances[S.issue_instances[k]].callable_id = c})

RECURSIVE add_leaf_assocs_without_text(_, _, _)
\* the leaf is not copied into the shared texts
add_leaf_assocs_without_text(S, f, ps) ==
  IF ps = {} THEN S
  ELSE LET p == CHOOSE q \in ps : TRUE
       IN add_leaf_assocs_without_text(
            add_trace_frame_leaf_assoc(S, f, p[1], p[2]), f, ps \ {p})

RECURSIVE add_leaf_assocs(_, _, _)
\* the loop over graph._trace_frame_leaf_assoc[trace_frame_id]
add_leaf_assocs(S, f, ps) ==
  IF ps = {} THEN S
  ELSE LET p == CHOOSE q \in ps : TRUE
       IN add_leaf_assocs(
            add_trace_frame_leaf_assoc(
              IF p[1] \notin S.shared_texts THEN add_shared_text(S, p[1]) ELSE S,
              f, p[1], p[2]),
            f, ps \ {p})

\* _add_trace_frame after its annotations: the texts and the leaf assocs
add_trace_frame_texts(S, G, f) ==
  LET S1 == populate_shared_text(S, G, TraceFrames[f].filename_id)
      S2 == populate_shared_text(S1, G, TraceFrames[f].caller_id)
      S3 == populate_shared_text(S2, G, TraceFrames[f].callee_id)
  IN add_leaf_assocs(S3, f, leaf_depths(G, f))

RECURSIVE add_annotation_assocs(_, _, _)
add_annotation_assocs(S, a, fs) ==
  IF fs = <<>> THEN S
  ELSE add_annotation_assocs(
         add_trace_frame_annotation_trace_frame_assoc(S, a, Head(fs)), a, Tail(fs))

\* _add_trace_annotation up to its call of _populate_trace
add_trace_annotation_assocs(S, G, a) ==
  add_annotation_assocs(add_trace_annotation(S, a), a,
                        SortedSeq(get_annotation_trace_frames(G, a)))

\* ------------------------------------------------------ state: BulkSaver
VARIABLES
  saving,          \* self.saving: class name -> list of pending items
  saver_pc,        \* "idle", "save_all", "returned" or "raised"
  saving_classes,  \* save_all: the classes the loop of line 99 has yet to save
  item_counts,     \* save_all: item_counts
  items,           \* _save: the prepared rows split_every has yet to yield
  cls,             \* _save: the class being saved
  db,              \* the calls the database has received, in order
  runs,            \* the number of save_all calls so far
  created          \* the number of items created so far

saver_vars == <<saving, saver_pc, saving_classes, item_counts, items, cls, db, runs,
                created>>

\* two neighbours of the list change places
SAVING_CLASSES_ORDER_swapped ==
  <<"SharedText", "Issue", "IssueInstanceFixInfo", "IssueInstance",
    "IssueInstanceSharedTextAssoc", "IssueInstanceTraceFrameAssoc", "TraceFrame",
    "TraceFrameAnnotation", "TraceFrameLeafAssoc",
    "TraceFrameAnnotationTraceFrameAssoc">>

\* order is significant, objects will be saved in this order.
SAVING_CLASSES_ORDER ==
  <<"SharedText", "Issue", "IssueInstanceFixInfo", "IssueInstance",
    "IssueInstanceSharedTextAssoc", "TraceFrame", "IssueInstanceTraceFrameAssoc",
    "TraceFrameAnnotation", "TraceFrameLeafAssoc",
    "TraceFrameAnnotationTraceFrameAssoc">>

\* BulkSaver.__init__, and a database that has received no call
SaverInit ==
  /\ saving = [c \in {SAVING_CLASSES_ORDER[k] : k \in 1..Len(SAVING_CLASSES_ORDER)} |-> <<>>]
  /\ saver_pc = "idle"
  /\ saving_classes = <<>>
  /\ item_counts = <<>>
  /\ items = <<>>
  /\ cls = "None"
  /\ db = <<>>
  /\ runs = 0
  /\ created = 0

\* ----------------------------------------------------- state: decorators
VARIABLES
  retry_config,   \* retryable(num_tries, retryable_exs) and the operation wrapped
  retry_pc,       \* "undecorated", "idle", "running", "returned" or "raised"
  tries,          \* invocations of the operation in the wrapper call in progress
  times_through,  \* the test's self.times_through: invocations since setUp
  last,           \* the outcome of the last invocation: "None", "True" or an exception
  calls,          \* calls of the wrapper so far
  ki_op,          \* the operation catch_keyboard_interrupt wraps
  ki_pc           \* "idle", "returned" or "raised"

deco_vars == <<retry_config, retry_pc, tries, times_through, last, calls, ki_op, ki_pc>>

Exceptions == {"Exception", "ImportError", "ValueError", "KeyboardInterrupt"}

\* retryable_exs not given: a set no exception is in
NotGiven == {"None"}

RetryConfigs ==
  [num_tries : 1..MaxTries,
   retryable_exs : {NotGiven, {"ImportError"}, {"ImportError", "ValueError"}},
   op : {"semiRaiseException", "raiseRetryableException", "any"}]

\* setUp, before any method is decorated
DecoInit ==
  /\ retry_config = [num_tries |-> 1, retryable_exs |-> NotGiven, op |-> "any"]
  /\ retry_pc = "undecorated"
  /\ tries = 0
  /\ times_through = 0
  /\ last = "None"
  /\ calls = 0
  /\ ki_op = "None"
  /\ ki_pc = "idle"

\* ------------------------------------------------------------------- state
VARIABLES
  graph,      \* the source TraceGraph
  props,      \* instance object -> its derived fields (the objects are shared
              \* by every graph that holds them)
  config,     \* trimmer -> affected_files, affected_issues_only
  self,       \* trimmer -> its TrimmedTraceGraph
  visited_trace_frame_ids,  \* trimmer -> self._visited_trace_frame_ids
  pc,         \* trimmer -> where populate_from_trace_graph stands
  stack,      \* trimmer -> the _populate_trace and _add_trace_frame calls in progress
  que,        \* trimmer -> que of _populate_issues_from_affected_conditions
  visited,    \* trimmer -> its visited dict, as (cond_id, leaves) in insertion order
  initial,    \* trimmer -> initial_condition_ids
  todo,       \* trimmer -> what the for loop in progress has yet to iterate
  cur,        \* trimmer -> instance_id of the loop at lines 61-82
  pending     \* trimmer -> the kinds that loop has yet to populate for cur

trimmer_vars == <<graph, props, config, self, visited_trace_frame_ids, pc, stack, que,
                  visited, initial, todo, cur, pending>>

vars == <<trimmer_vars, saver_vars, deco_vars>>

\* The derived fields the loader hands over: those of the whole graph.
InitialProps(G) ==
  [i \in SeqSet(G.issue_instances) |->
     [min_trace_length_to_sources |-> get_min_depth_to_sources(G, i),
      min_trace_length_to_sinks |-> get_min_depth_to_sinks(G, i),
      callable_count |-> callables_histo(G, IssueInstances[i].callable_id)]]

SourceGraphs ==
  {SourceGraph(F, I, A) : F \in SUBSET (1..NumFrames), I \in SUBSET (1..NumInstances),
                          A \in SUBSET (1..NumAnnotations)}

Configs ==
  [affected_files : AffectedFilesChoices, affected_issues_only : BOOLEAN]

\* TrimmedTraceGraph.__init__, for each trimmer of T, and a loaded graph.
InitFor(T, Gs, Cs) ==
  /\ SaverInit
  /\ DecoInit
  /\ graph \in Gs
  /\ props = InitialProps(graph)
  /\ config \in [T -> Cs]
  /\ self = [t \in T |-> EmptyGraph]
  /\ visited_trace_frame_ids = [t \in T |-> {}]
  /\ pc = [t \in T |-> "start"]
  /\ stack = [t \in T |-> <<>>]
  /\ que = [t \in T |-> <<>>]
  /\ visited = [t \in T |-> <<>>]
  /\ initial = [t \in T |-> <<>>]
  /\ todo = [t \in T |-> <<>>]
  /\ cur = [t \in T |-> 0]
  /\ pending = [t \in T |-> <<>>]

Init == InitFor({1}, SourceGraphs, Configs)

\* ---------------------------------------------------------------- call stack
TraceCall(ids) == [op |-> "trace", ids |-> ids, f |-> 0, anns |-> <<>>, mark |-> FALSE]

FrameCall(G, f, mark) ==
  [op |-> "frame", ids |-> <<>>, f |-> f,
   anns |-> SortedSeq(get_condition_annotations(G, f)), mark |-> mark]

Top(t) == Last(stack[t])

Running(t) == pc[t] \notin {"done", "RecursionError", "KeyError"}

Idle(t) == Running(t) /\ stack[t] = <<>>

\* ------------------------------------------------- populate_from_trace_graph
\* line 149: get_text of the filename of an instance of the graph fails
BeginFault(t) ==
  /\ pc[t] = "start"
  /\ \E i \in SeqSet(graph.issue_instances) :
       IssueInstances[i].filename_id \notin graph.shared_texts

\* lines 32 and 145-151
Begin(t) ==
  /\ pc[t] = "start"
  /\ ~BeginFault(t)
  /\ visited_trace_frame_ids' = [visited_trace_frame_ids EXCEPT ![t] = {}]
  /\ todo' = [todo EXCEPT ![t] =
       SelectSeq(graph.issue_instances,
                 LAMBDA i : is_filename_prefixed_with(
                              get_text(graph, IssueInstances[i].filename_id),
                              config[t].affected_files))]
  /\ pc' = [pc EXCEPT ![t] = "affected"]
  /\ UNCHANGED <<saver_vars, deco_vars, graph, props, config, self, stack, que, visited, initial, cur, pending>>

\* an absent issue or text is not looked up
populate_issue_fault_none(G, i) ==
  FALSE

\* _populate_issue looks up what the graph does not hold: the issue (line
\* 315), the message, filename or callable text (lines 316-318, 383), a text
\* of the instance's shared-text associations (line 328).
populate_issue_fault(G, i) ==
  \/ IssueInstances[i].issue_id \notin G.issues
  \/ IssueInstances[i].message_id \notin G.shared_texts
  \/ IssueInstances[i].filename_id \notin G.shared_texts
  \/ IssueInstances[i].callable_id \notin G.shared_texts
  \/ \E p \in G.issue_instance_shared_text_assoc : p[1] = i /\ p[2] \notin G.shared_texts

\* _populate_issue_trace looks up a first hop the graph does not hold (line
\* 302, before the kind is tested).
populate_issue_trace_fault(G, i) ==
  \E f \in first_hops(G, i) : f \notin G.trace_frames

PopulateAffectedFault(t) ==
  /\ pc[t] = "affected" /\ Idle(t) /\ todo[t] # <<>>
  /\ Head(todo[t]) \notin SeqSet(self[t].issue_instances)
  /\ \/ populate_issue_fault(graph, Head(todo[t]))
     \/ populate_issue_trace_fault(graph, Head(todo[t]))

\* lines 153-156, one instance: _populate_issue_and_traces
PopulateAffected(t) ==
  /\ pc[t] = "affected" /\ Idle(t) /\ todo[t] # <<>>
  /\ ~PopulateAffectedFault(t)
  /\ LET i == Head(todo[t]) IN
       IF i \in SeqSet(self[t].issue_instances)
       THEN UNCHANGED <<self, stack>>
       ELSE /\ self' = [self EXCEPT ![t] =
                 populate_issue_trace(populate_issue(@, graph, i), graph, i, AnyKind)]
            /\ stack' = [stack EXCEPT ![t] =
                 <<TraceCall(SortedSeq(filtered_ids(graph, i, AnyKind)))>>]
  /\ todo' = [todo EXCEPT ![t] = Tail(@)]
  /\ UNCHANGED <<saver_vars, deco_vars, graph, props, config, visited_trace_frame_ids, pc, que, visited,
                 initial, cur, pending>>

\* the caller's name is tested in place of the filename
initial_trace_frames_by_caller(G, prefixes) ==
  SelectSeq(SortedSeq(G.trace_frames),
            LAMBDA f : is_filename_prefixed_with(
                         get_text(G, TraceFrames[f].caller_id), prefixes))

\* The frames of the graph located in affected files (lines 179-185).
initial_trace_frames(G, prefixes) ==
  SelectSeq(SortedSeq(G.trace_frames),
            LAMBDA f : is_filename_prefixed_with(
                         get_text(G, TraceFrames[f].filename_id), prefixes))

\* affected_issues_only is not consulted: the search always follows
AffectedDone_always_search(t) ==
  /\ pc[t] = "affected" /\ Idle(t) /\ todo[t] = <<>>
  /\ LET fs == initial_trace_frames(graph, config[t].affected_files) IN
       /\ pc' = [pc EXCEPT ![t] = "search"]
       /\ initial' = [initial EXCEPT ![t] = fs]
       /\ que' = [que EXCEPT ![t] =
            [k \in 1..Len(fs) |->
               <<fs[k], get_incoming_leaf_kinds_of_frame(graph, fs[k])>>]]
       /\ visited' = [visited EXCEPT ![t] = <<>>]
       /\ UNCHANGED todo
  /\ UNCHANGED <<saver_vars, deco_vars, graph, props, config, self, visited_trace_frame_ids, stack, cur, pending>>

\* line 183: get_text of the filename of a frame of the graph fails; line
\* 233: the kind of a leaf of an initial condition is looked up
AffectedDoneFault(t) ==
  /\ pc[t] = "affected" /\ Idle(t) /\ todo[t] = <<>>
  /\ ~config[t].affected_issues_only
  /\ \/ \E f \in graph.trace_frames : TraceFrames[f].filename_id \notin graph.shared_texts
     \/ \E f \in SeqSet(initial_trace_frames(graph, config[t].affected_files)) :
          \E p \in leaf_depths(graph, f) : p[1] \notin graph.shared_texts

\* line 36, and lines 179-185 and 231-235 when not affected_issues_only
AffectedDone(t) ==
  /\ pc[t] = "affected" /\ Idle(t) /\ todo[t] = <<>>
  /\ ~AffectedDoneFault(t)
  /\ IF config[t].affected_issues_only
     THEN /\ pc' = [pc EXCEPT ![t] = "recompute"]
          /\ todo' = [todo EXCEPT ![t] = self[t].issue_instances]
          /\ UNCHANGED <<que, visited, initial>>
     ELSE LET fs == initial_trace_frames(graph, config[t].affected_files) IN
          /\ pc' = [pc EXCEPT ![t] = "search"]
          /\ initial' = [initial EXCEPT ![t] = fs]
          /\ que' = [que EXCEPT ![t] =
               [k \in 1..Len(fs) |->
                  <<fs[k], get_incoming_leaf_kinds_of_frame(graph, fs[k])>>]]
          /\ visited' = [visited EXCEPT ![t] = <<>>]
          /\ UNCHANGED todo
  /\ UNCHANGED <<saver_vars, deco_vars, graph, props, config, self, visited_trace_frame_ids, stack, cur, pending>>

\* ------------------------------- _populate_issues_from_affected_conditions
VisitedIds(v) == {v[k][1] : k \in 1..Len(v)}

VisitedLeaves(v, c) == UNION {v[k][2] : k \in {j \in 1..Len(v) : v[j][1] = c}}

\* visited[cond_id] = leaves on a revisit too
VisitedUpdate_overwrite(v, c, leaves) ==
  IF c \in {v[k][1] : k \in 1..Len(v)}
  THEN [k \in 1..Len(v) |-> IF v[k][1] = c THEN <<c, leaves>> ELSE v[k]]
  ELSE Append(v, <<c, leaves>>)

\* visited[cond_id].update(leaves), or visited[cond_id] = leaves
VisitedUpdate(v, c, leaves) ==
  IF c \in VisitedIds(v)
  THEN [k \in 1..Len(v) |-> IF v[k][1] = c THEN <<c, v[k][2] \cup leaves>> ELSE v[k]]
  ELSE Append(v, <<c, leaves>>)

\* the leaves already recorded are not taken away
new_leaves_unfiltered(v, c, leaves) ==
  leaves

\* The leaves the iteration goes on with (lines 246-253).
new_leaves(v, c, leaves) ==
  IF c \in VisitedIds(v) THEN leaves \ VisitedLeaves(v, c) ELSE leaves

RECURSIVE populate_hits_any_leaf(_, _, _, _, _)
\* every instance of the condition is a hit, whatever its leaves
populate_hits_any_leaf(S, G, cond, leaves, is) ==
  IF is = <<>> THEN S
  ELSE LET i == Head(is)
           S1 == IF i \notin SeqSet(S.issue_instances)
                 THEN populate_issue(S, G, i) ELSE S
       IN populate_hits_any_leaf(
            add_issue_instance_trace_frame_assoc(S1, i, cond), G, cond, leaves, Tail(is))

RECURSIVE populate_hits(_, _, _, _, _)
\* lines 258-269: the instances of the condition that share a leaf with it
populate_hits(S, G, cond, leaves, is) ==
  IF is = <<>> THEN S
  ELSE LET i == Head(is)
           hit == get_instance_leaf_ids(G, i) \cap leaves # {}
           S1 == IF hit /\ i \notin SeqSet(S.issue_instances)
                 THEN populate_issue(S, G, i) ELSE S
           S2 == IF hit THEN add_issue_instance_trace_frame_assoc(S1, i, cond) ELSE S1
       IN populate_hits(S2, G, cond, leaves, Tail(is))

\* every predecessor is enqueued, with or without leaves to follow
enqueued_all(G, leaves, cond) ==
  get_predecessor_frames(G, leaves, cond)

\* lines 273-277: the predecessors that have leaves to follow
enqueued(G, leaves, cond) ==
  SelectSeq(get_predecessor_frames(G, leaves, cond), LAMBDA p : p[2] # {})

\* lines 243-249: a condition that brings no new leaf
SearchSkip(t) ==
  /\ pc[t] = "search" /\ que[t] # <<>>
  /\ Last(que[t])[1] \in VisitedIds(visited[t])
  /\ new_leaves(visited[t], Last(que[t])[1], Last(que[t])[2]) = {}
  /\ que' = [que EXCEPT ![t] = Front(@)]
  /\ UNCHANGED <<saver_vars, deco_vars, graph, props, config, self, visited_trace_frame_ids, pc, stack,
                 visited, initial, todo, cur, pending>>

\* lines 258-268: the texts of an instance of the condition are looked up for
\* its leaves (line 263), and a hit not yet copied goes through _populate_issue
SearchVisitFault(t) ==
  /\ pc[t] = "search" /\ que[t] # <<>>
  /\ LET cond == Last(que[t])[1]
         leaves == new_leaves(visited[t], cond, Last(que[t])[2])
     IN /\ ~(cond \in VisitedIds(visited[t]) /\ leaves = {})
        /\ \E i \in get_issue_instances_from_frame_id(graph, cond) :
             \/ \E p \in graph.issue_instance_shared_text_assoc :
                  p[1] = i /\ p[2] \notin graph.shared_texts
             \/ /\ get_instance_leaf_ids(graph, i) \cap leaves # {}
                /\ i \notin SeqSet(self[t].issue_instances)
                /\ populate_issue_fault(graph, i)

\* lines 243-277: one iteration of the while loop
SearchVisit(t) ==
  /\ pc[t] = "search" /\ que[t] # <<>>
  /\ ~SearchVisitFault(t)
  /\ LET cond == Last(que[t])[1]
         leaves == new_leaves(visited[t], cond, Last(que[t])[2])
     IN /\ ~(cond \in VisitedIds(visited[t]) /\ leaves = {})
        /\ visited' = [visited EXCEPT ![t] = VisitedUpdate(@, cond, leaves)]
        /\ self' = [self EXCEPT ![t] =
             populate_hits(@, graph, cond, leaves,
                           SortedSeq(get_issue_instances_from_frame_id(graph, cond)))]
        /\ que' = [que EXCEPT ![t] = Front(@) \o enqueued(graph, leaves, cond)]
  /\ UNCHANGED <<saver_vars, deco_vars, graph, props, config, visited_trace_frame_ids, pc, stack, initial,
                 todo, cur, pending>>

\* lines 281-285: _populate_trace(graph, initial_condition_ids)
SearchDone(t) ==
  /\ pc[t] = "search" /\ que[t] = <<>>
  /\ stack' = [stack EXCEPT ![t] = <<TraceCall(initial[t])>>]
  /\ todo' = [todo EXCEPT ![t] = [k \in 1..Len(visited[t]) |-> visited[t][k][1]]]
  /\ pc' = [pc EXCEPT ![t] = "visited"]
  /\ UNCHANGED <<saver_vars, deco_vars, graph, props, config, self, visited_trace_frame_ids, que, visited,
                 initial, cur, pending>>

\* the visited condition is passed over, not copied
CopyVisited_skip(t) ==
  /\ pc[t] = "visited" /\ Idle(t) /\ todo[t] # <<>>
  /\ todo' = [todo EXCEPT ![t] = Tail(@)]
  /\ UNCHANGED <<saver_vars, deco_vars, graph, props, config, self, visited_trace_frame_ids, pc, stack, que,
                 visited, initial, cur, pending>>

\* lines 285-286, one visited condition: _add_trace_frame
CopyVisited(t) ==
  /\ pc[t] = "visited" /\ Idle(t) /\ todo[t] # <<>>
  /\ self' = [self EXCEPT ![t] = add_trace_frame(@, Head(todo[t]))]
  /\ stack' = [stack EXCEPT ![t] = <<FrameCall(graph, Head(todo[t]), FALSE)>>]
  /\ todo' = [todo EXCEPT ![t] = Tail(@)]
  /\ UNCHANGED <<saver_vars, deco_vars, graph, props, config, visited_trace_frame_ids, pc, que, visited,
                 initial, cur, pending>>

\* line 61: the loop over self._issue_instances.keys() starts
VisitedDone(t) ==
  /\ pc[t] = "visited" /\ Idle(t) /\ todo[t] = <<>>
  /\ pc' = [pc EXCEPT ![t] = "repair"]
  /\ todo' = [todo EXCEPT ![t] = self[t].issue_instances]
  /\ UNCHANGED <<saver_vars, deco_vars, graph, props, config, self, visited_trace_frame_ids, stack, que,
                 visited, initial, cur, pending>>

\* --------------------------------------------------------- lines 61 to 82
\* the precondition side is never repaired
missing_kinds_post_only(S, i) ==
  IF {f \in first_hops(S, i) : TraceFrames[f].kind = POSTCONDITION} = {}
  THEN <<POSTCONDITION>> ELSE <<>>

\* The kinds of which the instance has no first hop in self (lines 62-82).
missing_kinds(S, i) ==
  (IF {f \in first_hops(S, i) : TraceFrames[f].kind = POSTCONDITION} = {}
   THEN <<POSTCONDITION>> ELSE <<>>)
  \o (IF {f \in first_hops(S, i) : TraceFrames[f].kind = PRECONDITION} = {}
      THEN <<PRECONDITION>> ELSE <<>>)

\* lines 61-72: the next instance, and the kinds it lacks
RepairInstance(t) ==
  /\ pc[t] = "repair" /\ Idle(t) /\ pending[t] = <<>> /\ todo[t] # <<>>
  /\ cur' = [cur EXCEPT ![t] = Head(todo[t])]
  /\ pending' = [pending EXCEPT ![t] = missing_kinds(self[t], Head(todo[t]))]
  /\ todo' = [todo EXCEPT ![t] = Tail(@)]
  /\ UNCHANGED <<saver_vars, deco_vars, graph, props, config, self, visited_trace_frame_ids, pc, stack, que,
                 visited, initial>>

RepairTraceFault(t) ==
  /\ pc[t] = "repair" /\ Idle(t) /\ pending[t] # <<>>
  /\ populate_issue_trace_fault(graph, cur[t])

\* lines 74-82: _populate_issue_trace(graph, instance_id, kind)
RepairTrace(t) ==
  /\ pc[t] = "repair" /\ Idle(t) /\ pending[t] # <<>>
  /\ ~RepairTraceFault(t)
  /\ self' = [self EXCEPT ![t] =
       populate_issue_trace(@, graph, cur[t], Head(pending[t]))]
  /\ stack' = [stack EXCEPT ![t] =
       <<TraceCall(SortedSeq(filtered_ids(graph, cur[t], Head(pending[t]))))>>]
  /\ pending' = [pending EXCEPT ![t] = Tail(@)]
  /\ UNCHANGED <<saver_vars, deco_vars, graph, props, config, visited_trace_frame_ids, pc, que, visited,
                 initial, todo, cur>>

\* line 84: _recompute_instance_properties starts
RepairDone(t) ==
  /\ pc[t] = "repair" /\ Idle(t) /\ pending[t] = <<>> /\ todo[t] = <<>>
  /\ pc' = [pc EXCEPT ![t] = "recompute"]
  /\ todo' = [todo EXCEPT ![t] = self[t].issue_instances]
  /\ UNCHANGED <<saver_vars, deco_vars, graph, props, config, self, visited_trace_frame_ids, stack, que,
                 visited, initial, cur, pending>>

\* --------------------------------------------- _recompute_instance_properties
\* The fields lines 97-103 assign to the instance.
recomputed(S, i) ==
  [min_trace_length_to_sources |-> get_min_depth_to_sources(S, i),
   min_trace_length_to_sinks |-> get_min_depth_to_sinks(S, i),
   callable_count |-> callables_histo(S, IssueInstances[i].callable_id)]

\* lines 96-103, one instance
RecomputeInstance(t) ==
  /\ pc[t] = "recompute" /\ todo[t] # <<>>
  /\ props' = [props EXCEPT ![Head(todo[t])] = recomputed(self[t], Head(todo[t]))]
  /\ todo' = [todo EXCEPT ![t] = Tail(@)]
  /\ UNCHANGED <<saver_vars, deco_vars, graph, config, self, visited_trace_frame_ids, pc, stack, que, visited,
                 initial, cur, pending>>

RecomputeDone(t) ==
  /\ pc[t] = "recompute" /\ todo[t] = <<>>
  /\ pc' = [pc EXCEPT ![t] = "done"]
  /\ UNCHANGED <<saver_vars, deco_vars, graph, props, config, self, visited_trace_frame_ids, stack, que,
                 visited, initial, todo, cur, pending>>

\* ------------------------------------------ _populate_trace, _add_trace_frame
SetTop(st, r) == Append(Front(st), r)

\* lines 339-341: a frame already visited
TraceSkip(t) ==
  /\ Running(t) /\ stack[t] # <<>>
  /\ Top(t).op = "trace" /\ Top(t).ids # <<>>
  /\ Last(Top(t).ids) \in visited_trace_frame_ids[t]
  /\ stack' = [stack EXCEPT ![t] = SetTop(@, [Top(t) EXCEPT !.ids = Front(@)])]
  /\ UNCHANGED <<saver_vars, deco_vars, graph, props, config, self, visited_trace_frame_ids, pc, que,
                 visited, initial, todo, cur, pending>>

\* line 343: the frame popped is not a frame of the graph
TraceFrameFault(t) ==
  /\ Running(t) /\ stack[t] # <<>>
  /\ Top(t).op = "trace" /\ Top(t).ids # <<>>
  /\ Last(Top(t).ids) \notin visited_trace_frame_ids[t]
  /\ Last(Top(t).ids) \notin graph.trace_frames

\* lines 339-344 and 360-361: the frame is popped and _add_trace_frame starts
TraceFrame(t) ==
  /\ Running(t) /\ stack[t] # <<>>
  /\ Top(t).op = "trace" /\ Top(t).ids # <<>>
  /\ Last(Top(t).ids) \notin visited_trace_frame_ids[t]
  /\ ~TraceFrameFault(t)
  /\ Len(stack[t]) < MaxStack
  /\ self' = [self EXCEPT ![t] = add_trace_frame(@, Last(Top(t).ids))]
  /\ stack' = [stack EXCEPT ![t] =
       Append(SetTop(@, [Top(t) EXCEPT !.ids = Front(@)]),
              FrameCall(graph, Last(Top(t).ids), TRUE))]
  /\ UNCHANGED <<saver_vars, deco_vars, graph, props, config, visited_trace_frame_ids, pc, que, visited,
                 initial, todo, cur, pending>>

\* line 338: the list is empty, _populate_trace returns
TraceReturn(t) ==
  /\ Running(t) /\ stack[t] # <<>>
  /\ Top(t).op = "trace" /\ Top(t).ids = <<>>
  /\ stack' = [stack EXCEPT ![t] = Front(@)]
  /\ UNCHANGED <<saver_vars, deco_vars, graph, props, config, self, visited_trace_frame_ids, pc, que,
                 visited, initial, todo, cur, pending>>

\* line 395: a child frame of the annotation is not a frame of the graph
FrameAnnotationFault(t) ==
  /\ Running(t) /\ stack[t] # <<>>
  /\ Top(t).op = "frame" /\ Top(t).anns # <<>>
  /\ \E f \in get_annotation_trace_frames(graph, Head(Top(t).anns)) :
       f \notin graph.trace_frames

\* lines 364-365 and 394-399: _add_trace_annotation of the next annotation
FrameAnnotation(t) ==
  /\ Running(t) /\ stack[t] # <<>>
  /\ Top(t).op = "frame" /\ Top(t).anns # <<>>
  /\ ~FrameAnnotationFault(t)
  /\ Len(stack[t]) < MaxStack
  /\ self' = [self EXCEPT ![t] =
       add_trace_annotation_assocs(@, graph, Head(Top(t).anns))]
  /\ stack' = [stack EXCEPT ![t] =
       Append(SetTop(@, [Top(t) EXCEPT !.anns = Tail(@)]),
              TraceCall(SortedSeq(get_annotation_trace_frames(graph, Head(Top(t).anns)))))]
  /\ UNCHANGED <<saver_vars, deco_vars, graph, props, config, visited_trace_frame_ids, pc, que, visited,
                 initial, todo, cur, pending>>

\* the test of line 351 inverted
visited_next(G, f, seen) ==
  SelectSeq(SortedSeq(get_next_trace_frames(G, f)), LAMBDA n : n \in seen)

\* The successors _populate_trace extends its list with (lines 347-353).
unvisited_next(G, f, seen) ==
  SelectSeq(SortedSeq(get_next_trace_frames(G, f)), LAMBDA n : n \notin seen)

\* lines 367-371: the filename, caller or callee text of the frame, or the
\* text of one of its leaves, is not a text of the graph
FrameFinishFault(t) ==
  /\ Running(t) /\ stack[t] # <<>>
  /\ Top(t).op = "frame" /\ Top(t).anns = <<>>
  /\ \/ TraceFrames[Top(t).f].filename_id \notin graph.shared_texts
     \/ TraceFrames[Top(t).f].caller_id \notin graph.shared_texts
     \/ TraceFrames[Top(t).f].callee_id \notin graph.shared_texts
     \/ \E p \in leaf_depths(graph, Top(t).f) : p[1] \notin graph.shared_texts

\* lines 367-374: _add_trace_frame ends; lines 345-353 when _populate_trace
\* called it
FrameFinish(t) ==
  /\ Running(t) /\ stack[t] # <<>>
  /\ Top(t).op = "frame" /\ Top(t).anns = <<>>
  /\ ~FrameFinishFault(t)
  /\ self' = [self EXCEPT ![t] = add_trace_frame_texts(@, graph, Top(t).f)]
  /\ IF Top(t).mark
     THEN LET seen == visited_trace_frame_ids[t] \cup {Top(t).f}
              caller == stack[t][Len(stack[t]) - 1]
          IN /\ visited_trace_frame_ids' = [visited_trace_frame_ids EXCEPT ![t] = seen]
             /\ stack' = [stack EXCEPT ![t] =
                  SetTop(Front(@),
                         [caller EXCEPT !.ids = @ \o unvisited_next(graph, Top(t).f, seen)])]
     ELSE /\ stack' = [stack EXCEPT ![t] = Front(@)]
          /\ UNCHANGED visited_trace_frame_ids
  /\ UNCHANGED <<saver_vars, deco_vars, graph, props, config, pc, que, visited, initial, todo, cur, pending>>

\* The recursion of _populate_trace through annotations exceeds the
\* interpreter's limit: RecursionError leaves populate_from_trace_graph.
RecursionError(t) ==
  /\ Running(t) /\ stack[t] # <<>>
  /\ Len(stack[t]) >= MaxStack
  /\ \/ Top(t).op = "frame" /\ Top(t).anns # <<>>
     \/ /\ Top(t).op = "trace" /\ Top(t).ids # <<>>
        /\ Last(Top(t).ids) \notin visited_trace_frame_ids[t]
  /\ pc' = [pc EXCEPT ![t] = "RecursionError"]
  /\ UNCHANGED <<saver_vars, deco_vars, graph, props, config, self, visited_trace_frame_ids, stack, que,
                 visited, initial, todo, cur, pending>>

\* The step at hand subscripts a dictionary of the source graph with an id
\* the dictionary does not hold.
Fault(t) ==
  \/ BeginFault(t)
  \/ PopulateAffectedFault(t)
  \/ AffectedDoneFault(t)
  \/ SearchVisitFault(t)
  \/ RepairTraceFault(t)
  \/ TraceFrameFault(t)
  \/ FrameAnnotationFault(t)
  \/ FrameFinishFault(t)

\* KeyError leaves populate_from_trace_graph.
KeyError(t) ==
  /\ Running(t) /\ Fault(t)
  /\ pc' = [pc EXCEPT ![t] = "KeyError"]
  /\ UNCHANGED <<saver_vars, deco_vars, graph, props, config, self, visited_trace_frame_ids, stack, que,
                 visited, initial, todo, cur, pending>>

Step(t) ==
  \/ Begin(t)
  \/ PopulateAffected(t)
  \/ AffectedDone(t)
  \/ SearchSkip(t)
  \/ SearchVisit(t)
  \/ SearchDone(t)
  \/ CopyVisited(t)
  \/ VisitedDone(t)
  \/ RepairInstance(t)
  \/ RepairTrace(t)
  \/ RepairDone(t)
  \/ RecomputeInstance(t)
  \/ RecomputeDone(t)
  \/ TraceSkip(t)
  \/ TraceFrame(t)
  \/ TraceReturn(t)
  \/ FrameAnnotation(t)
  \/ FrameFinish(t)
  \/ RecursionError(t)

Next == Step(1)

Spec == Init /\ [][Next]_vars

\* populate_from_trace_graph runs as one sequential call: while it has a
\* step to take it takes it.  The queue and the visited map of the backward
\* search depend on the frames of the graph alone: the graphs range over the
\* sets of frames and hold one instance.
LiveGraphs ==
  {SourceGraph(F, {1}, A) : F \in SUBSET (1..NumFrames), A \in {{}, 1..NumAnnotations}}

LiveConfigs ==
  [affected_files : AffectedFilesChoices, affected_issues_only : {FALSE}]

InitLive == InitFor({1}, LiveGraphs, LiveConfigs)

SpecLive == InitLive /\ [][Next]_vars /\ WF_vars(Next)

\* Two trimmers, constructed with different affected_files, populate from one
\* shared source graph, their steps interleaved.
ConcGraphs ==
  {SourceGraph(F, I, A) : F \in {{2}, {2, 5}, {1, 2, 3, 4}}, I \in {{1, 2}, {1, 2, 3}},
                          A \in {{}, {1, 2, 3}}}

ConcConfigs ==
  {c \in [{1, 2} -> Configs] :
     /\ c[1].affected_files # c[2].affected_files
     /\ c[1].affected_files # <<>>
     /\ c[1].affected_issues_only = c[2].affected_issues_only}

InitConc ==
  /\ InitFor({1, 2}, ConcGraphs, Configs)
  /\ config \in ConcConfigs

NextConc == Step(1) \/ Step(2)

SpecConc == InitConc /\ [][NextConc]_vars

\* A loaded graph that lacks entities its associations and entities refer
\* to: frames, issues and texts taken out of the dictionaries, the references
\* to them left in place.
Corrupt(G, c) ==
  [G EXCEPT !.trace_frames = @ \ c.frames, !.issues = @ \ c.issues,
            !.shared_texts = @ \ c.texts]

\* Nothing absent; a frame that is a first hop and an annotation's child; an
\* issue; a leaf, a callable and a filename.
Corruptions ==
  { [frames |-> {}, issues |-> {}, texts |-> {}],
    [frames |-> {3}, issues |-> {}, texts |-> {}],
    [frames |-> {4}, issues |-> {}, texts |-> {}],
    [frames |-> {}, issues |-> {1}, texts |-> {}],
    [frames |-> {}, issues |-> {2}, texts |-> {}],
    [frames |-> {}, issues |-> {}, texts |-> {K1}],
    [frames |-> {}, issues |-> {}, texts |-> {TextId("callable", <<"g">>)}],
    [frames |-> {}, issues |-> {}, texts |-> {IssueInstances[1].filename_id}] }

FaultGraphs ==
  {Corrupt(SourceGraph(F, I, A), c) :
     F \in SUBSET (1..NumFrames), I \in SUBSET (1..NumInstances),
     A \in {{}, 1..NumAnnotations}, c \in Corruptions}

InitFault == InitFor({1}, FaultGraphs, Configs)

NextFault == Step(1) \/ KeyError(1)

SpecFault == InitFault /\ [][NextFault]_vars

\* ------------------------------------------------------------------ BulkSaver
Classes == {SAVING_CLASSES_ORDER[k] : k \in 1..Len(SAVING_CLASSES_ORDER)}

\* An item: its model class and its local id.
Item(c, n) == [model |-> c, id |-> n]

Reverse(s) == [k \in 1..Len(s) |-> s[Len(s) + 1 - k]]

\* lines 62-66: add(item)
Add ==
  /\ saver_pc # "save_all" /\ created < MaxItems
  /\ \E c \in Classes :
       saving' = [saving EXCEPT ![c] = Append(@, Item(c, created + 1))]
  /\ created' = created + 1
  /\ saver_pc' = "idle"
  /\ UNCHANGED <<trimmer_vars, deco_vars, saving_classes, item_counts, items, cls, db, runs>>

\* lines 70-75: add_all(items), the items of one class; nothing for no item
AddAll ==
  /\ saver_pc # "save_all"
  /\ \E c \in Classes : \E n \in 0..2 :
       /\ created + n <= MaxItems
       /\ saving' = [saving EXCEPT ![c] =
            @ \o [k \in 1..n |-> Item(c, created + k)]]
       /\ created' = created + n
  /\ saver_pc' = "idle"
  /\ UNCHANGED <<trimmer_vars, deco_vars, saving_classes, item_counts, items, cls, db, runs>>

\* every class is saved, pending items or not
saving_classes_unfiltered(sv) ==
  SAVING_CLASSES_ORDER

\* lines 84-88: the classes that have pending items, in saving order
saving_classes_of(sv) ==
  SelectSeq(SAVING_CLASSES_ORDER, LAMBDA c : Len(sv[c]) # 0)

\* lines 90-92
item_counts_of(sv) ==
  [c \in {saving_classes_of(sv)[k] : k \in 1..Len(saving_classes_of(sv))} |-> Len(sv[c])]

\* A call the database receives.
Reserve(run, classes, counts) ==
  [call |-> "reserve", run |-> run, classes |-> classes, counts |-> counts,
   cls |-> "None", group |-> <<>>, committed |-> TRUE]

BulkInsert(run, c, group, committed) ==
  [call |-> "bulk_insert_mappings", run |-> run, classes |-> <<>>, counts |-> <<>>,
   cls |-> c, group |-> group, committed |-> committed]

\* lines 83-97: save_all up to the loop, primary_key_generator.reserve included
SaveAll ==
  /\ saver_pc # "save_all" /\ runs < MaxRuns
  /\ runs' = runs + 1
  /\ saving_classes' = saving_classes_of(saving)
  /\ item_counts' = item_counts_of(saving)
  /\ db' = Append(db, Reserve(runs + 1, saving_classes_of(saving), item_counts_of(saving)))
  /\ saver_pc' = "save_all"
  /\ UNCHANGED <<trimmer_vars, deco_vars, saving, items, cls, created>>

\* the list is iterated, nothing is popped
consumed_kept(lst) ==
  lst

\* What consume(lst) leaves in the list once sorted() has exhausted it.
consumed(lst) ==
  <<>>

\* lines 99-114: the next class; cls.prepare takes every pending item of the
\* class, last first, out of self.saving
Save ==
  /\ saver_pc = "save_all" /\ items = <<>> /\ saving_classes # <<>>
  /\ cls' = Head(saving_classes)
  /\ saving_classes' = Tail(saving_classes)
  /\ items' = Reverse(saving[Head(saving_classes)])
  /\ saving' = [saving EXCEPT ![Head(saving_classes)] = consumed(@)]
  /\ UNCHANGED <<trimmer_vars, deco_vars, saver_pc, item_counts, db, runs, created>>

\* split_every(BATCH_SIZE, items): the next group
NextGroup(rows) ==
  SubSeq(rows, 1, IF Len(rows) < BatchSize THEN Len(rows) ELSE BatchSize)

\* lines 119-122: a group is inserted and committed
InsertBatch ==
  /\ saver_pc = "save_all" /\ items # <<>>
  /\ db' = Append(db, BulkInsert(runs, cls, NextGroup(items), TRUE))
  /\ items' = SubSeq(items, Len(NextGroup(items)) + 1, Len(items))
  /\ UNCHANGED <<trimmer_vars, deco_vars, saving, saver_pc, saving_classes, item_counts, cls,
                 runs, created>>

\* lines 119-122: the write of a group fails, the exception leaves save_all
InsertFails ==
  /\ saver_pc = "save_all" /\ items # <<>>
  /\ db' = Append(db, BulkInsert(runs, cls, NextGroup(items), FALSE))
  /\ items' = <<>>
  /\ saving_classes' = <<>>
  /\ saver_pc' = "raised"
  /\ UNCHANGED <<trimmer_vars, deco_vars, saving, item_counts, cls, runs, created>>

\* line 99: the loop is over, save_all returns
SaveAllReturn ==
  /\ saver_pc = "save_all" /\ items = <<>> /\ saving_classes = <<>>
  /\ saver_pc' = "returned"
  /\ UNCHANGED <<trimmer_vars, deco_vars, saving, saving_classes, item_counts, items, cls, db,
                 runs, created>>

\* A BulkSaver and its caller, who adds items and calls save_all; no trimmer.
InitSaver == InitFor({}, {EmptyGraph}, Configs)

NextSaver ==
  \/ Add
  \/ AddAll
  \/ SaveAll
  \/ Save
  \/ InsertBatch
  \/ InsertFails
  \/ SaveAllReturn

SpecSaver == InitSaver /\ [][NextSaver]_vars

\* ----------------------------------------------------------------- decorators
\* What an invocation of the wrapped operation does, times being
\* self.times_through after the operation has incremented it: the two methods
\* of RetryableTest, and an operation that may do anything.
Outcomes(op, times) ==
  CASE op = "semiRaiseException" -> IF times < 3 THEN {"Exception"} ELSE {"True"}
    [] op = "raiseRetryableException" ->
         IF times < 3 THEN {"ImportError"} ELSE {"Exception"}
    [] OTHER -> {"True", "Exception", "ImportError", "ValueError"}

\* The exception is one the wrapper retries after.
IsRetryable(cfg, x) ==
  cfg.retryable_exs = NotGiven \/ x \in cfg.retryable_exs

\* every exception is retried after, listed or not
after_invocation_any_exception(cfg, n, outcome) ==
  IF outcome \notin Exceptions THEN "returned"
  ELSE IF n >= cfg.num_tries THEN "raised"
  ELSE "running"

\* What the wrapper does after invocation number n of the call has ended in
\* outcome: it returns the result, propagates the exception, or tries again.
after_invocation(cfg, n, outcome) ==
  IF outcome \notin Exceptions THEN "returned"
  ELSE IF ~IsRetryable(cfg, outcome) \/ n >= cfg.num_tries THEN "raised"
  ELSE "running"

\* @retryable(num_tries=..., retryable_exs=...) on a method
Decorate ==
  /\ retry_pc = "undecorated"
  /\ retry_config' \in RetryConfigs
  /\ retry_pc' = "idle"
  /\ UNCHANGED <<trimmer_vars, saver_vars, tries, times_through, last, calls, ki_op,
                 ki_pc>>

\* a call of the wrapper starts
RetryCall ==
  /\ retry_pc \in {"idle", "returned", "raised"} /\ calls < MaxCalls
  /\ calls' = calls + 1
  /\ tries' = 0
  /\ last' = "None"
  /\ retry_pc' = "running"
  /\ UNCHANGED <<trimmer_vars, saver_vars, retry_config, times_through, ki_op, ki_pc>>

\* the wrapper invokes the operation, and acts on how it ends
Invoke ==
  /\ retry_pc = "running"
  /\ \E o \in Outcomes(retry_config.op, times_through + 1) :
       /\ last' = o
       /\ retry_pc' = after_invocation(retry_config, tries + 1, o)
  /\ tries' = tries + 1
  /\ times_through' = times_through + 1
  /\ UNCHANGED <<trimmer_vars, saver_vars, retry_config, calls, ki_op, ki_pc>>

\* What the methods of CatchKeyboardInterruptTest raise.
Raises(op) ==
  IF op = "throwsKeyboardInterrupt" THEN "KeyboardInterrupt" ELSE "ValueError"

\* every exception is caught
catch_keyboard_interrupt_all(x) ==
  "returned"

\* The wrapper around an operation that raises x: it returns, the exception
\* caught, or the exception reaches the caller.
catch_keyboard_interrupt(x) ==
  IF x = "KeyboardInterrupt" THEN "returned" ELSE "raised"

\* a call of a method decorated with catch_keyboard_interrupt()
InterruptCall ==
  /\ \E op \in {"throwsKeyboardInterrupt", "throwsException"} :
       /\ ki_op' = op
       /\ ki_pc' = catch_keyboard_interrupt(Raises(op))
  /\ UNCHANGED <<trimmer_vars, saver_vars, retry_config, retry_pc, tries, times_through,
                 last, calls>>

\* The decorated methods and their callers; no trimmer, an unused saver.
InitDecorators == InitFor({}, {EmptyGraph}, Configs)

NextDecorators ==
  \/ Decorate
  \/ RetryCall
  \/ Invoke
  \/ InterruptCall

SpecDecorators == InitDecorators /\ [][NextDecorators]_vars

\* ------------------------------------------------------------------ claims
Trimmers == DOMAIN pc

Done(t) == pc[t] = "done"

AllDone == \A t \in Trimmers : Done(t)

Instances(G) == SeqSet(G.issue_instances)

\* The instance's own location is in an affected file.
Affected(t, i) ==
  is_filename_prefixed_with(SharedTexts[IssueInstances[i].filename_id].contents,
                            config[t].affected_files)

FrameAffected(t, f) ==
  is_filename_prefixed_with(SharedTexts[TraceFrames[f].filename_id].contents,
                            config[t].affected_files)

HopsOfKind(G, i, kind) == {f \in first_hops(G, i) : TraceFrames[f].kind = kind}

\* C1: when populate_from_trace_graph has completed, every trace frame an
\* instance-frame, leaf or annotation-frame association of the output names
\* is a trace frame of the output, and every leaf a leaf association names is
\* a shared text of the output.
C1_NoDanglingReferences ==
  \A t \in Trimmers : Done(t) =>
    /\ \A p \in self[t].issue_instance_trace_frame_assoc : p[2] \in self[t].trace_frames
    /\ \A p \in self[t].trace_frame_leaf_assoc :
         p[1] \in self[t].trace_frames /\ p[2] \in self[t].shared_texts
    /\ \A p \in self[t].trace_frame_annotation_trace_frame_assoc :
         p[2] \in self[t].trace_frames

C1_Witness ==
  /\ Done(1)
  /\ self[1].issue_instance_trace_frame_assoc # {}
  /\ self[1].trace_frame_annotation_trace_frame_assoc # {}
  /\ \E p \in self[1].trace_frame_leaf_assoc :
       \A i \in Instances(self[1]) : p[2] \notin InstanceTexts[i]

\* C2: populate_from_trace_graph only reads the source graph: when it has
\* completed, the derived fields of every instance of the source graph are
\* those it had before the call.  (No action assigns graph, the ids and
\* associations of the source; props holds what an assignment can reach.)
C2_SourceUnchanged ==
  \A t \in Trimmers : Done(t) => props = InitialProps(graph)

\* C3: when two trimmers have populated from one shared source graph with
\* their steps interleaved, the derived fields of each instance of each output
\* are those the trimmer computes when it runs alone: the ones recomputed
\* from its own output graph.
C3_InterleavedAsAlone ==
  AllDone =>
    \A t \in Trimmers : \A i \in Instances(self[t]) :
      props[i] = recomputed(self[t], i)

\* C4: leaf-consistency of the backward search: every instance of the output
\* whose own location is not in an affected file has a first hop in the
\* output that the backward search visited and whose active leaves intersect
\* the instance's own source and sink leaves.
C4_LeafConsistency ==
  \A t \in Trimmers : \A i \in Instances(self[t]) :
    ~Affected(t, i) =>
      \E c \in VisitedIds(visited[t]) :
        /\ <<i, c>> \in self[t].issue_instance_trace_frame_assoc
        /\ get_instance_leaf_ids(graph, i) \cap VisitedLeaves(visited[t], c) # {}

\* Two instances outside the affected files share a first hop located in an
\* affected file and have disjoint leaves: one is pulled in, the other not.
C4_Witness ==
  /\ Done(1)
  /\ \E i, j \in Instances(graph) : \E c \in SeqSet(initial[1]) :
       /\ ~Affected(1, i) /\ ~Affected(1, j)
       /\ c \in first_hops(graph, i) \cap first_hops(graph, j)
       /\ get_instance_leaf_ids(graph, i) \cap get_instance_leaf_ids(graph, j) = {}
       /\ i \in Instances(self[1])
       /\ j \notin Instances(self[1])

\* C5: directional completeness: when populate_from_trace_graph has completed,
\* every instance of the output has a first hop of each kind of which it has
\* a first hop in the source graph.
C5_DirectionalCompleteness ==
  \A t \in Trimmers : Done(t) =>
    \A i \in Instances(self[t]) : \A kind \in {POSTCONDITION, PRECONDITION} :
      HopsOfKind(graph, i, kind) # {} => HopsOfKind(self[t], i, kind) # {}

\* An instance the backward search pulled in through its postcondition trace
\* has a precondition first hop that the search never visited.
C5_Witness ==
  /\ Done(1)
  /\ \E i \in Instances(self[1]) :
       /\ ~Affected(1, i)
       /\ HopsOfKind(self[1], i, POSTCONDITION) \cap VisitedIds(visited[1]) # {}
       /\ HopsOfKind(self[1], i, PRECONDITION) # {}
       /\ HopsOfKind(self[1], i, PRECONDITION) \cap VisitedIds(visited[1]) = {}

\* The minimum depth over the leaves of the given kind on the instance's
\* first hops of the given trace kind in the graph, 0 if there is none.
MinDepthOfKind(S, i, trace_kind, leaf_kind) ==
  LET ds == {p[3] : p \in {q \in S.trace_frame_leaf_assoc :
                            /\ q[1] \in HopsOfKind(S, i, trace_kind)
                            /\ SharedTexts[q[2]].kind = leaf_kind
                            /\ q[3] # NoDepth}}
  IN IF ds = {} THEN 0 ELSE Min(ds)

\* C6: when populate_from_trace_graph has completed, each output instance's
\* min_trace_length_to_sources is the minimum depth over the SOURCE leaves of
\* its POSTCONDITION first hops in the output (0 if none) and its
\* min_trace_length_to_sinks the minimum depth over the SINK leaves of its
\* PRECONDITION first hops (0 if none); leaves of other kinds do not count.
C6_MinTraceLengths ==
  Done(1) =>
    \A i \in Instances(self[1]) :
      /\ props[i].min_trace_length_to_sources
           = MinDepthOfKind(self[1], i, POSTCONDITION, "source")
      /\ props[i].min_trace_length_to_sinks
           = MinDepthOfKind(self[1], i, PRECONDITION, "sink")

\* C7: with an empty affected_files the output has no issue, no instance and
\* no trace frame, whatever affected_issues_only is.
C7_EmptyFilter ==
  \A t \in Trimmers : (Done(t) /\ config[t].affected_files = <<>>) =>
    /\ self[t].issues = {}
    /\ self[t].issue_instances = <<>>
    /\ self[t].trace_frames = {}

C7_Witness ==
  /\ Done(1) /\ config[1].affected_files = <<>>
  /\ ~config[1].affected_issues_only
  /\ graph.issue_instances # <<>> /\ graph.trace_frames # {}

\* Every filename of an instance or a frame of the source graph has one of
\* affected_files as a prefix.
AllFilesAffected(t) ==
  /\ \A i \in Instances(graph) : Affected(t, i)
  /\ \A f \in graph.trace_frames : FrameAffected(t, f)

\* C8: with affected_issues_only false and affected_files matching every
\* filename of the source graph, the output has as many instances and as many
\* trace frames as the source, and the same instance to first hop
\* associations.
C8_FullFilter ==
  \A t \in Trimmers :
    (Done(t) /\ ~config[t].affected_issues_only /\ AllFilesAffected(t)) =>
      /\ Len(self[t].issue_instances) = Len(graph.issue_instances)
      /\ Cardinality(self[t].trace_frames) = Cardinality(graph.trace_frames)
      /\ self[t].issue_instance_trace_frame_assoc
           = graph.issue_instance_trace_frame_assoc

\* The source has a frame that no instance's trace reaches.
C8_Witness ==
  /\ Done(1) /\ ~config[1].affected_issues_only /\ AllFilesAffected(1)
  /\ Len(graph.issue_instances) >= 2
  /\ Cardinality(graph.trace_frames) >= 3
  /\ \E f \in graph.trace_frames :
       \A i \in Instances(graph) : f \notin first_hops(graph, i)

RECURSIVE Reachable(_, _)
\* The frames reachable from fs through get_next_trace_frames and through the
\* child frames of the annotations of the frames reached.
Reachable(G, fs) ==
  LET more == fs \cup UNION {get_next_trace_frames(G, f) : f \in fs}
                 \cup UNION {UNION {get_annotation_trace_frames(G, a) :
                                      a \in get_condition_annotations(G, f)} : f \in fs}
  IN IF more = fs THEN fs ELSE Reachable(G, more)

\* C9: when populate_from_trace_graph has completed, every instance of the
\* source whose own filename is affected is in the output with an association
\* to each of its first hops of the source, and the output holds every frame
\* reachable from those first hops through successors and annotation
\* children.
C9_AffectedKeepFullTrace ==
  \A t \in Trimmers : Done(t) =>
    \A i \in Instances(graph) : Affected(t, i) =>
      /\ i \in Instances(self[t])
      /\ \A f \in first_hops(graph, i) :
           <<i, f>> \in self[t].issue_instance_trace_frame_assoc
      /\ Reachable(graph, first_hops(graph, i)) \subseteq self[t].trace_frames

\* An affected instance whose trace goes on past its first hops, through a
\* successor and through an annotation's child, with affected_issues_only.
C9_Witness ==
  /\ Done(1) /\ config[1].affected_issues_only
  /\ \E i \in Instances(graph) :
       /\ Affected(1, i)
       /\ \E f \in first_hops(graph, i) :
            /\ get_next_trace_frames(graph, f) \ first_hops(graph, i) # {}
            /\ get_condition_annotations(graph, f) # {}
       /\ Reachable(graph, first_hops(graph, i)) \ first_hops(graph, i) # {}

\* The source graph of the scenario: instance 1 of issue 1, with source leaf
\* L1, and its only first hop, postcondition frame 2 in /a/b.py, with the
\* leaf association (2, L1, depth 2).
Scenario(t) ==
  /\ graph = SourceGraph({2}, {1}, {})
  /\ config[t].affected_files = << <<"/", "a", "/">> >>
  /\ ~config[t].affected_issues_only

\* C10: in the scenario the output holds the instance and frame 2 and no
\* other frame, min_trace_length_to_sinks is 0 and min_trace_length_to_sources
\* is 2.
C10_Scenario ==
  (Done(1) /\ Scenario(1)) =>
    /\ self[1].issue_instances = <<1>>
    /\ self[1].trace_frames = {2}
    /\ props[1].min_trace_length_to_sinks = 0
    /\ props[1].min_trace_length_to_sources = 2

C10_Witness ==
  /\ Done(1) /\ Scenario(1)
  /\ TraceFrames[2].kind = POSTCONDITION
  /\ graph.trace_frame_leaf_assoc = {<<2, L1, 2>>}
  /\ get_source_kinds(graph, 1) = {L1}
  /\ startswith(SharedTexts[TraceFrames[2].filename_id].contents,
                <<"/", "a", "/", "b", ".", "p", "y">>)

\* The instances of the graph that are in the callable of instance i.
SameCallable(G, i) ==
  {j \in Instances(G) : IssueInstances[j].callable_id = IssueInstances[i].callable_id}

\* C16: when populate_from_trace_graph has completed, the callable_count of
\* every instance of the output is the number of instances of the output, not
\* of the source, that are in the same callable; it is at least 1.
C16_CallableCount ==
  Done(1) =>
    \A i \in Instances(self[1]) :
      /\ props[i].callable_count = Cardinality(SameCallable(self[1], i))
      /\ props[i].callable_count >= 1

\* The output holds an instance that shares its callable with an instance the
\* trimming left out, and instances of two callables.
C16_Witness ==
  /\ Done(1)
  /\ \E i \in Instances(self[1]) :
       /\ SameCallable(graph, i) \ SameCallable(self[1], i) # {}
       /\ props[i].callable_count < InitialProps(graph)[i].callable_count
  /\ \E i, j \in Instances(self[1]) :
       IssueInstances[i].callable_id # IssueInstances[j].callable_id

\* C17: the backward search terminates: a run that is in the while loop of
\* _populate_issues_from_affected_conditions leaves it, on every source graph,
\* those with cycles in the predecessor relation included.
C17_SearchTerminates ==
  (pc[1] = "search") ~> (pc[1] # "search")

\* The search has ended after visiting two conditions that are predecessors
\* of each other with leaves to follow, and a condition it reached twice.
C17_Witness ==
  /\ pc[1] = "visited"
  /\ \E c, d \in VisitedIds(visited[1]) :
       /\ c # d
       /\ d \in {p[1] : p \in SeqSet(enqueued(graph, VisitedLeaves(visited[1], c), c))}
       /\ c \in {p[1] : p \in SeqSet(enqueued(graph, VisitedLeaves(visited[1], d), d))}

\* The leaves recorded for the condition, none when it is not visited.
Recorded(v, c) == IF c \in VisitedIds(v) THEN VisitedLeaves(v, c) ELSE {}

\* One step of the while loop of the backward search on the popped pair
\* (cond, lv): the recorded leaves of every condition only grow; a pair that
\* brings no new leaf to a visited condition changes nothing but the queue;
\* any other pair records exactly its new leaves, adds only instances that
\* share one of the new leaves, associates them to cond only, and enqueues
\* the predecessors computed from the new leaves only.
SearchStepOnNewLeaves ==
  LET cond == Last(que[1])[1]
      lv == Last(que[1])[2]
      old == Recorded(visited[1], cond)
      fresh == lv \ old
  IN /\ \A c \in VisitedIds(visited[1]) :
          /\ c \in VisitedIds(visited'[1])
          /\ VisitedLeaves(visited[1], c) \subseteq VisitedLeaves(visited'[1], c)
     /\ IF cond \in VisitedIds(visited[1]) /\ fresh = {}
        THEN /\ visited'[1] = visited[1]
             /\ self'[1] = self[1]
             /\ que'[1] = Front(que[1])
        ELSE /\ VisitedIds(visited'[1]) = VisitedIds(visited[1]) \cup {cond}
             /\ Recorded(visited'[1], cond) = old \cup fresh
             /\ \A c \in VisitedIds(visited[1]) \ {cond} :
                  VisitedLeaves(visited'[1], c) = VisitedLeaves(visited[1], c)
             /\ \A i \in Instances(self'[1]) \ Instances(self[1]) :
                  get_instance_leaf_ids(graph, i) \cap fresh # {}
             /\ \A p \in self'[1].issue_instance_trace_frame_assoc
                           \ self[1].issue_instance_trace_frame_assoc :
                  p[2] = cond /\ get_instance_leaf_ids(graph, p[1]) \cap fresh # {}
             /\ que'[1] = Front(que[1]) \o enqueued(graph, fresh, cond)

\* C18: during the backward search the leaves recorded for a visited
\* condition only grow and no condition is un-visited, and a popped
\* (condition, leaves) pair is processed with the leaves not yet recorded for
\* the condition only; a pair that brings no new leaf is dropped.
C18_OnlyNewLeaves ==
  [][(pc[1] = "search" /\ que[1] # <<>>) => SearchStepOnNewLeaves]_vars

\* The search is about to pop a pair for a visited condition, some of whose
\* leaves are recorded and some not.
C18_Witness ==
  /\ pc[1] = "search" /\ que[1] # <<>>
  /\ LET cond == Last(que[1])[1]
         lv == Last(que[1])[2]
     IN /\ cond \in VisitedIds(visited[1])
        /\ lv \cap VisitedLeaves(visited[1], cond) # {}
        /\ lv \ VisitedLeaves(visited[1], cond) # {}

\* The predecessors of the condition in the reverse index of the source.
Preds(d) ==
  trace_frames_rev_map(graph, TraceFrames[d].kind, TraceFrames[d].caller_id,
                       TraceFrames[d].caller_port)

\* C19: the backward search enqueues a predecessor only with a non-empty
\* translated leaf set: every visited condition that is not an initial frame
\* has leaves recorded, and each of them is a leaf that the leaf_mapping of
\* the condition translates from a leaf recorded for a visited condition it
\* is a predecessor of.
C19_PredecessorLeaves ==
  /\ \A k \in 1..Len(que[1]) :
       que[1][k][1] \notin SeqSet(initial[1]) => que[1][k][2] # {}
  /\ \A c \in VisitedIds(visited[1]) \ SeqSet(initial[1]) :
       /\ VisitedLeaves(visited[1], c) # {}
       /\ \A l \in VisitedLeaves(visited[1], c) :
            \E d \in VisitedIds(visited[1]) :
              /\ c \in Preds(d)
              /\ l \in compute_prev_leaf_kinds(VisitedLeaves(visited[1], d),
                                               TraceFrames[c].leaf_mapping)

\* The search has ended: it visited a condition outside the initial frames,
\* and left out a predecessor of a visited condition whose leaf_mapping
\* translates none of the leaves recorded for that condition.
C19_Witness ==
  /\ pc[1] = "visited"
  /\ VisitedIds(visited[1]) \ SeqSet(initial[1]) # {}
  /\ \E d \in VisitedIds(visited[1]) : \E p \in Preds(d) :
       /\ VisitedLeaves(visited[1], d) # {}
       /\ compute_prev_leaf_kinds(VisitedLeaves(visited[1], d),
                                  TraceFrames[p].leaf_mapping) = {}
       /\ p \notin VisitedIds(visited[1])

RECURSIVE Forward(_, _)
\* The frames reachable from fs through get_next_trace_frames.
Forward(G, fs) ==
  LET more == fs \cup UNION {get_next_trace_frames(G, f) : f \in fs}
  IN IF more = fs THEN fs ELSE Forward(G, more)

\* The frames of the source graph located in an affected file.
AffectedFrames(t) == {f \in graph.trace_frames : FrameAffected(t, f)}

\* The output holds the frame with the leaf associations and the annotations
\* it has in the source.
CopiedInFull(t, f) ==
  /\ f \in self[t].trace_frames
  /\ {p \in graph.trace_frame_leaf_assoc : p[1] = f} \subseteq self[t].trace_frame_leaf_assoc
  /\ get_condition_annotations(graph, f) \subseteq self[t].trace_annotations

\* C20: when populate_from_trace_graph has completed with affected_issues_only
\* false, the output holds every frame of the source located in an affected
\* file, every frame reachable forward from it through get_next_trace_frames,
\* and every condition the backward search visited, with its leaf
\* associations and annotations.
C20_FrontierAndVisited ==
  (Done(1) /\ ~config[1].affected_issues_only) =>
    /\ Forward(graph, AffectedFrames(1)) \subseteq self[1].trace_frames
    /\ \A c \in VisitedIds(visited[1]) : CopiedInFull(1, c)

\* A completed run in which a frame of an affected file has a successor
\* outside the affected files, and the search visited a condition, with a leaf
\* association and an annotation, that no affected frame reaches forward.
C20_Witness ==
  /\ Done(1) /\ ~config[1].affected_issues_only
  /\ Forward(graph, AffectedFrames(1)) \ AffectedFrames(1) # {}
  /\ \E c \in VisitedIds(visited[1]) \ Forward(graph, AffectedFrames(1)) :
       /\ get_condition_annotations(graph, c) # {}
       /\ \E p \in graph.trace_frame_leaf_assoc : p[1] = c

\* The bulk inserts the database has received, as positions of db.
Inserts == {k \in 1..Len(db) : db[k].call = "bulk_insert_mappings"}

\* Within each save_all run, the classes of the bulk inserts follow the order.
WritesFollow(order) ==
  \A j, k \in Inserts :
    (j < k /\ db[j].run = db[k].run) =>
      (CHOOSE m \in 1..Len(order) : order[m] = db[j].cls)
        <= (CHOOSE m \in 1..Len(order) : order[m] = db[k].cls)

\* C11, as claimed: save_all writes texts, issues, instances, fix-info,
\* instance-text associations, frames, instance-frame associations,
\* annotations, leaf associations, annotation-frame associations, every write
\* of an earlier type before the first write of a later one; all IssueInstance
\* rows before any IssueInstanceFixInfo row.
C11_ClaimedOrder ==
  WritesFollow(<<"SharedText", "Issue", "IssueInstance", "IssueInstanceFixInfo",
                 "IssueInstanceSharedTextAssoc", "TraceFrame",
                 "IssueInstanceTraceFrameAssoc", "TraceFrameAnnotation",
                 "TraceFrameLeafAssoc", "TraceFrameAnnotationTraceFrameAssoc">>)

\* C11, amended: save_all writes texts, issues, fix-info, instances,
\* instance-text associations, frames, instance-frame associations,
\* annotations, leaf associations, annotation-frame associations, every write
\* of an earlier type before the first write of a later one; all
\* IssueInstanceFixInfo rows before any IssueInstance row.
C11_FixInfoBeforeInstances ==
  WritesFollow(<<"SharedText", "Issue", "IssueInstanceFixInfo", "IssueInstance",
                 "IssueInstanceSharedTextAssoc", "TraceFrame",
                 "IssueInstanceTraceFrameAssoc", "TraceFrameAnnotation",
                 "TraceFrameLeafAssoc", "TraceFrameAnnotationTraceFrameAssoc">>)

\* One run has written a fix-info row, then an instance row, then an
\* instance-frame association, the items having been added in another order.
C11_Witness ==
  \E i, j, k \in Inserts :
    /\ i < j /\ j < k
    /\ db[i].run = db[j].run /\ db[j].run = db[k].run
    /\ db[i].cls = "IssueInstanceFixInfo"
    /\ db[j].cls = "IssueInstance"
    /\ db[k].cls = "IssueInstanceTraceFrameAssoc"
    /\ db[i].group[1].id > db[j].group[1].id

\* The ids of the items of the group of bulk insert k.
GroupIds(k) == {db[k].group[m].id : m \in 1..Len(db[k].group)}

\* The reserve call of the run.
ReserveOf(r) == CHOOSE k \in 1..Len(db) : db[k].call = "reserve" /\ db[k].run = r

\* No item has been passed to two bulk inserts, nor twice to one; a completed
\* save_all has left nothing pending and has passed to a bulk insert every
\* item that was pending when it was called; a run inserts rows only of the
\* classes it found pending.
DrainedOnce ==
  /\ \A j, k \in Inserts : j # k => GroupIds(j) \cap GroupIds(k) = {}
  /\ \A k \in Inserts : Cardinality(GroupIds(k)) = Len(db[k].group)
  /\ \A k \in Inserts : db[k].cls \in SeqSet(db[ReserveOf(db[k].run)].classes)
  /\ saver_pc = "returned" =>
       /\ \A c \in Classes : saving[c] = <<>>
       /\ \A c \in DOMAIN item_counts :
            Cardinality(UNION {GroupIds(k) : k \in {j \in Inserts :
                                 db[j].run = runs /\ db[j].cls = c /\ db[j].committed}})
              = item_counts[c]

\* C12: BulkSaver drains everything at most once: a save_all that completes
\* leaves every pending collection empty, every item that was pending has been
\* passed to exactly one bulk insert, a further save_all with no add in
\* between finds no class to save, and no item is passed to a bulk insert
\* twice, a save_all that follows a failed batch write included.
C12_DrainedAtMostOnce ==
  /\ []DrainedOnce
  /\ [][(saver_pc = "returned" /\ runs' = runs + 1) =>
          (saving_classes' = <<>> /\ item_counts' = <<>>)]_vars

\* A second save_all has completed and inserted rows, after a first one that
\* committed a batch of a class and failed on the next batch of that class.
C12_Witness ==
  /\ saver_pc = "returned" /\ runs = 2
  /\ \E i, j, k \in Inserts :
       /\ i < j /\ j < k
       /\ db[i].run = 1 /\ db[i].committed
       /\ db[j].run = 1 /\ ~db[j].committed /\ db[j].cls = db[i].cls
       /\ db[k].run = 2 /\ db[k].committed

\* The reserve calls of the run, as positions of db.
Reserves(r) == {k \in 1..Len(db) : db[k].call = "reserve" /\ db[k].run = r}

\* Each save_all run has reserved primary keys exactly once, before each of
\* its bulk inserts.
ReservedOnceBeforeWrites ==
  /\ \A r \in 1..runs : Cardinality(Reserves(r)) = 1
  /\ \A k \in Inserts : \A j \in Reserves(db[k].run) : j < k

\* C13: in every save_all run primary keys are reserved exactly once and
\* before any row is written, for exactly the classes that have a pending
\* item when save_all is called, each with the number of its pending items.
C13_ReservedOnce ==
  /\ []ReservedOnceBeforeWrites
  /\ [][runs' = runs + 1 =>
          /\ Last(db').call = "reserve" /\ Last(db').run = runs'
          /\ SeqSet(Last(db').classes) = {c \in Classes : Len(saving[c]) > 0}
          /\ DOMAIN Last(db').counts = {c \in Classes : Len(saving[c]) > 0}
          /\ \A c \in DOMAIN Last(db').counts : Last(db').counts[c] = Len(saving[c])]_vars

\* The second run is writing rows, its reservation being for two classes with
\* two pending items and one, the first run having reserved other counts.
C13_Witness ==
  /\ saver_pc = "save_all" /\ runs = 2
  /\ \E k \in Inserts : db[k].run = 2
  /\ \E c, d \in Classes :
       /\ DOMAIN db[ReserveOf(2)].counts = {c, d}
       /\ db[ReserveOf(2)].counts[c] = 2
       /\ db[ReserveOf(2)].counts[d] = 1
  /\ db[ReserveOf(1)].counts # db[ReserveOf(2)].counts

\* The invocations of the wrapper call in progress, or ended, follow the
\* wrapper's rule: at most num_tries of them; the call has returned only a
\* result; it has raised only an exception that is not one to retry after, or
\* the one of invocation number num_tries; it goes on only after an exception
\* to retry after.
RetryRule ==
  retry_pc # "undecorated" =>
    /\ tries <= retry_config.num_tries
    /\ retry_pc = "returned" => last = "True"
    /\ retry_pc = "raised" =>
         /\ last \in Exceptions
         /\ \/ ~(retry_config.retryable_exs = NotGiven \/ last \in retry_config.retryable_exs)
            \/ tries = retry_config.num_tries
    /\ (retry_pc = "running" /\ tries > 0) =>
         /\ last \in Exceptions
         /\ retry_config.retryable_exs = NotGiven \/ last \in retry_config.retryable_exs
         /\ tries < retry_config.num_tries

\* What testRetries and testRetryableExceptions assert (lines 40-52).
RetryTests ==
  /\ ( /\ retry_config = [num_tries |-> 5, retryable_exs |-> NotGiven,
                          op |-> "semiRaiseException"]
       /\ retry_pc \in {"returned", "raised"} )
       => /\ retry_pc = "returned"
          /\ times_through = calls + 2
  /\ ( /\ retry_config = [num_tries |-> 5, retryable_exs |-> {"ImportError"},
                          op |-> "raiseRetryableException"]
       /\ retry_pc \in {"returned", "raised"} /\ calls = 1 )
       => /\ retry_pc = "raised" /\ last = "Exception"
          /\ times_through = 3

\* C14: a call of an operation wrapped with retryable(num_tries=N,
\* retryable_exs=E) invokes the operation at most N times, returns the result
\* of the first invocation that succeeds and invokes it no more, retries only
\* after an exception of E (any exception when E is not given), propagates at
\* once an exception that is not of E, and counts its attempts from zero on
\* every call.
C14_Retryable ==
  /\ [](RetryRule /\ RetryTests)
  /\ [][/\ times_through' # times_through =>
             /\ retry_pc = "running"
             /\ times_through' = times_through + 1 /\ tries' = tries + 1
        /\ calls' # calls => tries' = 0 /\ times_through' = times_through
        /\ (retry_pc \in {"returned", "raised"} /\ calls' = calls) =>
             times_through' = times_through]_vars

\* The second call of semiRaiseException, wrapped with num_tries=5, has
\* returned after one invocation, the first call having taken three.
C14_Witness ==
  /\ retry_config = [num_tries |-> 5, retryable_exs |-> NotGiven,
                     op |-> "semiRaiseException"]
  /\ retry_pc = "returned" /\ calls = 2 /\ tries = 1 /\ times_through = 4

\* C15, as claimed: catch_keyboard_interrupt lets a KeyboardInterrupt raised by
\* the wrapped operation reach the caller, and catches an exception of any
\* other type.
C15_InterruptPropagates ==
  /\ ki_op = "throwsKeyboardInterrupt" => ki_pc = "raised"
  /\ ki_op = "throwsException" => ki_pc = "returned"

\* C15, amended: catch_keyboard_interrupt catches a KeyboardInterrupt raised by
\* the wrapped operation, which does not reach the caller, and lets a
\* ValueError reach the caller.
C15_InterruptCaught ==
  /\ ki_op = "throwsKeyboardInterrupt" => ki_pc = "returned"
  /\ ki_op = "throwsException" => ki_pc = "raised"

\* throwsKeyboardInterrupt has been called through the wrapper.
C15_Witness ==
  /\ ki_op = "throwsKeyboardInterrupt"
  /\ Raises(ki_op) = "KeyboardInterrupt"
  /\ ki_pc # "idle"

\* A step of trimmer t starts _add_trace_frame: a call of it is pushed (by
\* _populate_trace at line 344, or by the loop of lines 285-286).
StartsAddTraceFrame(t) ==
  /\ Len(stack'[t]) > Len(stack[t])
  /\ Last(stack'[t]).op = "frame"

\* C21: within one run of populate_from_trace_graph, _add_trace_frame is
\* executed at most once for each frame id: whenever it starts for a frame,
\* that frame has not been copied into the output graph before.
C21_CopiedOnce ==
  [][\A t \in DOMAIN pc :
       StartsAddTraceFrame(t) => Last(stack'[t]).f \notin self[t].trace_frames]_vars

\* The instances of the source whose own filename is affected.
AffectedInstances(t) == {i \in Instances(graph) : Affected(t, i)}

\* C22: when populate_from_trace_graph has completed with affected_issues_only
\* set, the instances of the output are exactly the instances of the source
\* whose own filename is affected, and every frame of the output is reachable
\* from the first hops of those instances through successors and annotation
\* children, whatever frames of the source lie in affected files.
C22_AffectedIssuesOnly ==
  \A t \in Trimmers : (Done(t) /\ config[t].affected_issues_only) =>
    /\ Instances(self[t]) = AffectedInstances(t)
    /\ self[t].trace_frames \subseteq
         Reachable(graph, UNION {first_hops(graph, i) : i \in AffectedInstances(t)})

\* A completed run with affected_issues_only that kept an affected instance
\* and its frames, and left out a frame that lies in an affected file and is
\* a first hop of an instance that shares a leaf with it but is not affected.
C22_Witness ==
  /\ Done(1) /\ config[1].affected_issues_only
  /\ AffectedInstances(1) # {}
  /\ self[1].trace_frames # {}
  /\ \E f \in graph.trace_frames \ self[1].trace_frames :
       /\ FrameAffected(1, f)
       /\ \E i \in Instances(graph) \ Instances(self[1]) :
            /\ f \in first_hops(graph, i)
            /\ get_instance_leaf_ids(graph, i)
                 \cap get_incoming_leaf_kinds_of_frame(graph, f) # {}

\* The references of the source graph the output of trimmer t rests on all
\* lead to entities of the source graph: the issue and the texts of every
\* instance of the output, every first hop of an affected instance and of the
\* output's associations, and the texts, the leaves and the annotations'
\* child frames of every frame of the output.
ReferencesResolve(t) ==
  /\ \A i \in Instances(self[t]) :
       /\ IssueInstances[i].issue_id \in graph.issues
       /\ {IssueInstances[i].message_id, IssueInstances[i].filename_id,
           IssueInstances[i].callable_id} \subseteq graph.shared_texts
       /\ \A p \in graph.issue_instance_shared_text_assoc :
            p[1] = i => p[2] \in graph.shared_texts
  /\ \A i \in Instances(graph) :
       Affected(t, i) => first_hops(graph, i) \subseteq graph.trace_frames
  /\ \A p \in self[t].issue_instance_trace_frame_assoc : p[2] \in graph.trace_frames
  /\ \A f \in self[t].trace_frames :
       /\ f \in graph.trace_frames
       /\ {TraceFrames[f].filename_id, TraceFrames[f].caller_id,
           TraceFrames[f].callee_id} \subseteq graph.shared_texts
       /\ \A p \in leaf_depths(graph, f) : p[1] \in graph.shared_texts
       /\ \A a \in get_condition_annotations(graph, f) :
            get_annotation_trace_frames(graph, a) \subseteq graph.trace_frames

\* The source graph holds a reference to an entity it lacks.
Dangling(G) ==
  \/ \E p \in G.issue_instance_trace_frame_assoc : p[2] \notin G.trace_frames
  \/ \E p \in G.trace_frame_annotation_trace_frame_assoc : p[2] \notin G.trace_frames
  \/ \E i \in Instances(G) :
       \/ IssueInstances[i].issue_id \notin G.issues
       \/ {IssueInstances[i].message_id, IssueInstances[i].filename_id,
           IssueInstances[i].callable_id} \ G.shared_texts # {}
  \/ \E p \in G.issue_instance_shared_text_assoc : p[2] \notin G.shared_texts
  \/ \E f \in G.trace_frames :
       {TraceFrames[f].filename_id, TraceFrames[f].caller_id,
        TraceFrames[f].callee_id} \ G.shared_texts # {}
  \/ \E p \in G.trace_frame_leaf_assoc : p[1] \in G.trace_frames /\ p[2] \notin G.shared_texts

\* C23: populate_from_trace_graph does not complete past a reference to an
\* absent entity: when it has completed, every reference of the source graph
\* it followed (first hops, annotation children, issues, texts of instances,
\* frames and leaves) leads to an entity of the source graph; it raises
\* KeyError only on a source graph that has such a reference, and the step
\* that needs the absent entity is the last one.
C23_FailFast ==
  /\ [](\A t \in Trimmers :
          /\ Done(t) => ReferencesResolve(t)
          /\ pc[t] = "KeyError" => Dangling(graph))
  /\ [][\A t \in Trimmers :
          (Running(t) /\ Fault(t)) => (pc'[t] = "KeyError" /\ self' = self)]_vars

\* A run that copied an instance and frames, and then stopped with KeyError
\* at a first hop, or at an annotation's child, that the graph lacks.
C23_Witness ==
  /\ pc[1] = "KeyError"
  /\ self[1].issue_instances # <<>> /\ self[1].trace_frames # {}
  /\ \/ /\ stack[1] = <<>> /\ pending[1] # <<>>
        /\ populate_issue_trace_fault(graph, cur[1])
     \/ /\ stack[1] # <<>> /\ Top(1).op = "frame" /\ Top(1).anns # <<>>
        /\ get_annotation_trace_frames(graph, Head(Top(1).anns)) \ graph.trace_frames # {}

\* C24: the forward copy terminates: whenever calls of _populate_trace or
\* _add_trace_frame are in progress, the outermost of them returns in the end,
\* on graphs with cycles of successors and of annotation children too.
C24_FloodFillTerminates ==
  (stack[1] # <<>>) ~> (stack[1] = <<>>)

\* The backward search of trimmer t has run and ended.
Searched(t) ==
  /\ ~config[t].affected_issues_only
  /\ pc[t] \in {"visited", "repair", "recompute", "done"}

\* The final active leaf set of a condition: empty when it was not visited.
Active(t, c) == Recorded(visited[t], c)

\* The predecessors of condition c in the reverse index of the source.
RevPreds(c) ==
  trace_frames_rev_map(graph, TraceFrames[c].kind, TraceFrames[c].caller_id,
                       TraceFrames[c].caller_port)

\* C25: when the backward search has ended, for every visited condition c
\* with final active leaf set A(c): every instance of the source that has c
\* as a first hop and a source or sink leaf in A(c) is in the output with an
\* association to c; and for every predecessor p of c, the leaves of A(c)
\* translated through p's leaf mapping are all in A(p).
C25_HitsComplete ==
  \A t \in Trimmers : Searched(t) =>
    \A c \in VisitedIds(visited[t]) :
      /\ \A i \in get_issue_instances_from_frame_id(graph, c) :
           get_instance_leaf_ids(graph, i) \cap Active(t, c) # {} =>
             /\ i \in Instances(self[t])
             /\ <<i, c>> \in self[t].issue_instance_trace_frame_assoc
      /\ \A p \in RevPreds(c) :
           compute_prev_leaf_kinds(Active(t, c), TraceFrames[p].leaf_mapping)
             \subseteq Active(t, p)

\* A completed run in which an initial condition ended with more active
\* leaves than its own: leaves that successors handed back to it.  It is a
\* first hop of an instance that is not affected itself and shares with it
\* none of its own leaves but one of those handed back, and it has a
\* predecessor that takes leaves from it.
C25_Witness ==
  /\ Done(1) /\ Searched(1)
  /\ \E c \in VisitedIds(visited[1]) \cap SeqSet(initial[1]) :
       /\ Active(1, c) \ get_incoming_leaf_kinds_of_frame(graph, c) # {}
       /\ \E i \in get_issue_instances_from_frame_id(graph, c) :
            /\ ~Affected(1, i)
            /\ get_instance_leaf_ids(graph, i)
                 \cap get_incoming_leaf_kinds_of_frame(graph, c) = {}
            /\ get_instance_leaf_ids(graph, i) \cap Active(1, c) # {}
       /\ \E p \in RevPreds(c) :
            compute_prev_leaf_kinds(Active(1, c), TraceFrames[p].leaf_mapping) # {}

====
